---- MODULE Spec2Model ----
(***************************************************************************)
(* Authentication and authorization core of the CRM backend:               *)
(*   server/auth.ts   AuthService, requireAuth, requireRole,               *)
(*                    loadUserContext                                      *)
(*   server/index.ts  session configuration, app.use(loadUserContext)      *)
(*   server/routes.ts /api/auth/register, login, logout, me, /api/users    *)
(* One action handles one HTTP request from the session middleware to the  *)
(* end of the response.  Storage errors are inputs of the request.         *)
(***************************************************************************)
EXTENDS Integers, Sequences, FiniteSets, TLC

\* ---------------------------------------------------------------- bounds
MaxOrgs   == 2
MaxUsers  == 2
MaxTokens == 2
MaxCalls  == 2

\* ---------------------------------------------------------------- inputs
Missing       == ""
Emails        == {"a@x.com", "b@x.com"}
Passwords     == {"pw123456", "hunter2"}
OrgNames      == <<"Acme", "Beta", "Gamma", "Delta">>
Subdomains    == <<"acme", "beta", "gamma", "delta">>
RoleShapes    == { [name |-> "admin",  permissions |-> {"*"}],
                   [name |-> "admin",  permissions |-> {}],
                   [name |-> "viewer", permissions |-> {"read"}],
                   [name |-> "viewer", permissions |-> {"admin"}],
                   [name |-> "viewer", permissions |-> {"*"}] }
RequiredRoles == { {"admin"}, {"read"}, {"manager", "read"} }

Tokens   == 1..MaxTokens
NoCookie == 0
NoRecord == -1

\* a row that does not exist / an identity that is not attached
None == [id |-> 0]

VARIABLES organizations, userRoles, users, nextId, sessionStore, issued,
          plaintext, last, calls

vars == <<organizations, userRoles, users, nextId, sessionStore, issued,
          plaintext, last, calls>>
db   == <<organizations, userRoles, users, nextId>>

\* ------------------------------------------------------ Credential Store
\* bcrypt keys its cipher with the first 72 bytes of the password
BcryptMaxBytes == 72

\* the length of a bcrypt hash string: $2a$12$, 22 characters of salt and 31
\* of digest
BcryptHashLength == 60

\* the bytes of the password that bcrypt reads
KeyBytes(password) ==
  IF Len(password) > BcryptMaxBytes THEN SubSeq(password, 1, BcryptMaxBytes)
  ELSE password

\* bcrypt.hash(password, 12): a salted one-way digest
HashPassword(password, salt) ==
  [alg |-> "2a", cost |-> 12, salt |-> salt, digest |-> <<salt, KeyBytes(password)>>]

\* a users.password column that holds a string bcrypt did not produce
RawString(str) == [raw |-> str]

\* bcrypt.compare(password, hash) rejects: a string of the length of a hash
\* whose salt part does not parse
CompareRaises(hash) ==
  /\ DOMAIN hash = {"raw"}
  /\ Len(hash.raw) = BcryptHashLength

\* bcrypt.compare(password, hash): recompute with the salt of the hash; a
\* string of another length than a hash compares false
ComparePassword(password, hash) ==
  /\ DOMAIN hash = {"alg", "cost", "salt", "digest"}
  /\ HashPassword(password, hash.salt).digest = hash.digest

\* ------------------------------------------------------------- DB helpers
\* .limit(1) of a result set
First(rows) == IF rows = {} THEN None ELSE CHOOSE r \in rows : TRUE

\* users innerJoin organizations on users.organizationId = organizations.id
UsersWithOrg ==
  { [id |-> u.id, username |-> u.username, email |-> u.email,
     password |-> u.password, organizationId |-> u.organizationId,
     roleId |-> u.roleId, isActive |-> u.isActive, lastLogin |-> u.lastLogin,
     organization |-> o] :
    <<u, o>> \in { p \in users \X organizations : p[1].organizationId = p[2].id } }

\* a destructuring that keeps every column of the row
WithoutPassword_KeepsAll(row) == row

\* const { password: _, ...userWithoutPassword } = userWithOrg
WithoutPassword(row) == [f \in (DOMAIN row) \ {"password"} |-> row[f]]

\* the select lists of registerUser and loadUserContext have no password column
SelectedColumns(row) ==
  [id |-> row.id, username |-> row.username, email |-> row.email,
   organizationId |-> row.organizationId, roleId |-> row.roleId,
   isActive |-> row.isActive, lastLogin |-> row.lastLogin,
   organization |-> row.organization]

\* ------------------------------------------------------ Identity Resolver
\* new Date() at a login; lastLogin is 0 (null) until then
LoginTime == 1

\* storage calls of authenticateUser that may raise
AuthFaults == {"select", "update"}

\* authenticateUser without eq(organizations.isActive, true) in its filter
AuthenticateUser_AnyOrganization(email, password, fault) ==
  LET unchanged == [users |-> users]
      rows == { r \in UsersWithOrg :
                  r.email = email /\ r.isActive }
      userWithOrg == First(rows)
  IN  IF fault = "select"
        THEN unchanged @@ [result |-> None, raised |-> "select"]
      ELSE IF userWithOrg = None
        THEN unchanged @@ [result |-> None, raised |-> ""]
      ELSE IF CompareRaises(userWithOrg.password)
        THEN unchanged @@ [result |-> None, raised |-> "compare"]
      ELSE IF ~ComparePassword(password, userWithOrg.password)
        THEN unchanged @@ [result |-> None, raised |-> ""]
      ELSE IF fault = "update"
        THEN unchanged @@ [result |-> None, raised |-> "update"]
      ELSE [users  |-> { IF u.id = userWithOrg.id
                           THEN [u EXCEPT !.lastLogin = LoginTime] ELSE u : u \in users },
            result |-> WithoutPassword(userWithOrg),
            raised |-> ""]

\* authenticateUser that writes lastLogin before it compares the password
AuthenticateUser_UpdatesBeforeCompare(email, password, fault) ==
  LET unchanged == [users |-> users]
      rows == { r \in UsersWithOrg :
                  r.email = email /\ r.isActive /\ r.organization.isActive }
      userWithOrg == First(rows)
      updated == [users |-> { IF u.id = userWithOrg.id
                                THEN [u EXCEPT !.lastLogin = LoginTime] ELSE u : u \in users }]
  IN  IF fault = "select"
        THEN unchanged @@ [result |-> None, raised |-> "select"]
      ELSE IF userWithOrg = None
        THEN unchanged @@ [result |-> None, raised |-> ""]
      ELSE IF fault = "update"
        THEN unchanged @@ [result |-> None, raised |-> "update"]
      ELSE IF CompareRaises(userWithOrg.password)
        THEN updated @@ [result |-> None, raised |-> "compare"]
      ELSE IF ~ComparePassword(password, userWithOrg.password)
        THEN updated @@ [result |-> None, raised |-> ""]
      ELSE updated @@ [result |-> WithoutPassword(userWithOrg), raised |-> ""]

\* AuthService.authenticateUser(email, password); fault names the storage
\* call that raises in this call ("none": no call raises), raised the call
\* whose error the catch block logged
AuthenticateUser(email, password, fault) ==
  LET unchanged == [users |-> users]
      rows == { r \in UsersWithOrg :
                  r.email = email /\ r.isActive /\ r.organization.isActive }
      userWithOrg == First(rows)
  IN  IF fault = "select"
        THEN unchanged @@ [result |-> None, raised |-> "select"]
      ELSE IF userWithOrg = None
        THEN unchanged @@ [result |-> None, raised |-> ""]
      ELSE IF CompareRaises(userWithOrg.password)
        THEN unchanged @@ [result |-> None, raised |-> "compare"]
      ELSE IF ~ComparePassword(password, userWithOrg.password)
        THEN unchanged @@ [result |-> None, raised |-> ""]
      ELSE IF fault = "update"
        THEN unchanged @@ [result |-> None, raised |-> "update"]
      ELSE [users  |-> { IF u.id = userWithOrg.id
                           THEN [u EXCEPT !.lastLogin = LoginTime] ELSE u : u \in users },
            result |-> WithoutPassword(userWithOrg),
            raised |-> ""]

\* organizations.subdomain is unique: the insert raises on a taken subdomain
SubdomainTaken(subdomain) == \E o \in organizations : o.subdomain = subdomain

\* storage calls of registerUser that may raise
RegisterFaults == {"existing", "insertOrg", "insertRole", "selectRole", "insertUser", "refetch"}

\* registerUser without the test of existingUser
RegisterUser_NoDuplicateCheck(userData, salt, fault) ==
  LET hashedPassword == HashPassword(userData.password, salt)
      existingUser == First({ u \in users : u.email = userData.email })
      newOrg == [id |-> nextId.org, name |-> userData.organizationName,
                 subdomain |-> userData.organizationSubdomain, isActive |-> TRUE]
      newRole == [id |-> nextId.role, name |-> "admin", permissions |-> {"*"},
                  organizationId |-> newOrg.id]
      orgs1  == organizations \cup {newOrg}
      roles1 == userRoles \cup {newRole}
      adminRole == First({ r \in roles1 :
                             r.organizationId = newOrg.id /\ r.name = "admin" })
      newUser == [id |-> nextId.user, username |-> userData.username,
                  email |-> userData.email, password |-> hashedPassword,
                  organizationId |-> newOrg.id, roleId |-> adminRole.id,
                  isActive |-> TRUE, lastLogin |-> 0]
      users1 == users \cup {newUser}
      joined == [id |-> newUser.id, username |-> newUser.username,
                 email |-> newUser.email, password |-> newUser.password,
                 organizationId |-> newUser.organizationId, roleId |-> newUser.roleId,
                 isActive |-> newUser.isActive, lastLogin |-> newUser.lastLogin,
                 organization |-> newOrg]
      Out(res, err, o, r, u, w) ==
        [result |-> res, error |-> err,
         raised |-> IF err # "storage error" THEN ""
                    ELSE IF fault = "none" THEN "insertOrg" ELSE fault,
         organizations |-> o, userRoles |-> r,
         users |-> u, writes |-> w,
         nextId |-> [org  |-> nextId.org  + (IF o = organizations THEN 0 ELSE 1),
                     role |-> nextId.role + (IF r = userRoles THEN 0 ELSE 1),
                     user |-> nextId.user + (IF u = users THEN 0 ELSE 1)]]
      Nothing(err) == Out(None, err, organizations, userRoles, users, <<>>)
  IN  IF fault = "existing"
        THEN Nothing("storage error")
      ELSE IF userData.organizationName = Missing \/ userData.organizationSubdomain = Missing
        THEN Nothing("Organization information is required")
      ELSE IF fault = "insertOrg" \/ SubdomainTaken(userData.organizationSubdomain)
        THEN Nothing("storage error")
      ELSE IF fault = "insertRole"
        THEN Out(None, "storage error", orgs1, userRoles, users, <<"organization">>)
      ELSE IF fault \in {"selectRole", "insertUser"}
        THEN Out(None, "storage error", orgs1, roles1, users, <<"organization", "role">>)
      ELSE IF fault = "refetch"
        THEN Out(None, "storage error", orgs1, roles1, users1,
                 <<"organization", "role", "user">>)
      ELSE Out(SelectedColumns(joined), "", orgs1, roles1, users1,
               <<"organization", "role", "user">>)

\* registerUser that takes the new user's roleId from organizationId
RegisterUser_RoleIdFromOrganization(userData, salt, fault) ==
  LET hashedPassword == HashPassword(userData.password, salt)
      existingUser == First({ u \in users : u.email = userData.email })
      newOrg == [id |-> nextId.org, name |-> userData.organizationName,
                 subdomain |-> userData.organizationSubdomain, isActive |-> TRUE]
      newRole == [id |-> nextId.role, name |-> "admin", permissions |-> {"*"},
                  organizationId |-> newOrg.id]
      orgs1  == organizations \cup {newOrg}
      roles1 == userRoles \cup {newRole}
      adminRole == First({ r \in roles1 :
                             r.organizationId = newOrg.id /\ r.name = "admin" })
      newUser == [id |-> nextId.user, username |-> userData.username,
                  email |-> userData.email, password |-> hashedPassword,
                  organizationId |-> newOrg.id, roleId |-> newOrg.id,
                  isActive |-> TRUE, lastLogin |-> 0]
      users1 == users \cup {newUser}
      joined == [id |-> newUser.id, username |-> newUser.username,
                 email |-> newUser.email, password |-> newUser.password,
                 organizationId |-> newUser.organizationId, roleId |-> newUser.roleId,
                 isActive |-> newUser.isActive, lastLogin |-> newUser.lastLogin,
                 organization |-> newOrg]
      Out(res, err, o, r, u, w) ==
        [result |-> res, error |-> err,
         raised |-> IF err # "storage error" THEN ""
                    ELSE IF fault = "none" THEN "insertOrg" ELSE fault,
         organizations |-> o, userRoles |-> r,
         users |-> u, writes |-> w,
         nextId |-> [org  |-> nextId.org  + (IF o = organizations THEN 0 ELSE 1),
                     role |-> nextId.role + (IF r = userRoles THEN 0 ELSE 1),
                     user |-> nextId.user + (IF u = users THEN 0 ELSE 1)]]
      Nothing(err) == Out(None, err, organizations, userRoles, users, <<>>)
  IN  IF fault = "existing"
        THEN Nothing("storage error")
      ELSE IF existingUser # None
        THEN Nothing("User with this email already exists")
      ELSE IF userData.organizationName = Missing \/ userData.organizationSubdomain = Missing
        THEN Nothing("Organization information is required")
      ELSE IF fault = "insertOrg" \/ SubdomainTaken(userData.organizationSubdomain)
        THEN Nothing("storage error")
      ELSE IF fault = "insertRole"
        THEN Out(None, "storage error", orgs1, userRoles, users, <<"organization">>)
      ELSE IF fault \in {"selectRole", "insertUser"}
        THEN Out(None, "storage error", orgs1, roles1, users, <<"organization", "role">>)
      ELSE IF fault = "refetch"
        THEN Out(None, "storage error", orgs1, roles1, users1,
                 <<"organization", "role", "user">>)
      ELSE Out(SelectedColumns(joined), "", orgs1, roles1, users1,
               <<"organization", "role", "user">>)

\* registerUser without the test of organizationName and organizationSubdomain
RegisterUser_NoOrganizationCheck(userData, salt, fault) ==
  LET hashedPassword == HashPassword(userData.password, salt)
      existingUser == First({ u \in users : u.email = userData.email })
      newOrg == [id |-> nextId.org, name |-> userData.organizationName,
                 subdomain |-> userData.organizationSubdomain, isActive |-> TRUE]
      newRole == [id |-> nextId.role, name |-> "admin", permissions |-> {"*"},
                  organizationId |-> newOrg.id]
      orgs1  == organizations \cup {newOrg}
      roles1 == userRoles \cup {newRole}
      adminRole == First({ r \in roles1 :
                             r.organizationId = newOrg.id /\ r.name = "admin" })
      newUser == [id |-> nextId.user, username |-> userData.username,
                  email |-> userData.email, password |-> hashedPassword,
                  organizationId |-> newOrg.id, roleId |-> adminRole.id,
                  isActive |-> TRUE, lastLogin |-> 0]
      users1 == users \cup {newUser}
      joined == [id |-> newUser.id, username |-> newUser.username,
                 email |-> newUser.email, password |-> newUser.password,
                 organizationId |-> newUser.organizationId, roleId |-> newUser.roleId,
                 isActive |-> newUser.isActive, lastLogin |-> newUser.lastLogin,
                 organization |-> newOrg]
      Out(res, err, o, r, u, w) ==
        [result |-> res, error |-> err,
         raised |-> IF err # "storage error" THEN ""
                    ELSE IF fault = "none" THEN "insertOrg" ELSE fault,
         organizations |-> o, userRoles |-> r,
         users |-> u, writes |-> w,
         nextId |-> [org  |-> nextId.org  + (IF o = organizations THEN 0 ELSE 1),
                     role |-> nextId.role + (IF r = userRoles THEN 0 ELSE 1),
                     user |-> nextId.user + (IF u = users THEN 0 ELSE 1)]]
      Nothing(err) == Out(None, err, organizations, userRoles, users, <<>>)
  IN  IF fault = "existing"
        THEN Nothing("storage error")
      ELSE IF existingUser # None
        THEN Nothing("User with this email already exists")
      ELSE IF fault = "insertOrg" \/ SubdomainTaken(userData.organizationSubdomain)
        THEN Nothing("storage error")
      ELSE IF fault = "insertRole"
        THEN Out(None, "storage error", orgs1, userRoles, users, <<"organization">>)
      ELSE IF fault \in {"selectRole", "insertUser"}
        THEN Out(None, "storage error", orgs1, roles1, users, <<"organization", "role">>)
      ELSE IF fault = "refetch"
        THEN Out(None, "storage error", orgs1, roles1, users1,
                 <<"organization", "role", "user">>)
      ELSE Out(SelectedColumns(joined), "", orgs1, roles1, users1,
               <<"organization", "role", "user">>)

\* AuthService.registerUser(userData); salt is the salt bcrypt draws
RegisterUser(userData, salt, fault) ==
  LET hashedPassword == HashPassword(userData.password, salt)
      existingUser == First({ u \in users : u.email = userData.email })
      newOrg == [id |-> nextId.org, name |-> userData.organizationName,
                 subdomain |-> userData.organizationSubdomain, isActive |-> TRUE]
      newRole == [id |-> nextId.role, name |-> "admin", permissions |-> {"*"},
                  organizationId |-> newOrg.id]
      orgs1  == organizations \cup {newOrg}
      roles1 == userRoles \cup {newRole}
      adminRole == First({ r \in roles1 :
                             r.organizationId = newOrg.id /\ r.name = "admin" })
      newUser == [id |-> nextId.user, username |-> userData.username,
                  email |-> userData.email, password |-> hashedPassword,
                  organizationId |-> newOrg.id, roleId |-> adminRole.id,
                  isActive |-> TRUE, lastLogin |-> 0]
      users1 == users \cup {newUser}
      joined == [id |-> newUser.id, username |-> newUser.username,
                 email |-> newUser.email, password |-> newUser.password,
                 organizationId |-> newUser.organizationId, roleId |-> newUser.roleId,
                 isActive |-> newUser.isActive, lastLogin |-> newUser.lastLogin,
                 organization |-> newOrg]
      Out(res, err, o, r, u, w) ==
        [result |-> res, error |-> err,
         raised |-> IF err # "storage error" THEN ""
                    ELSE IF fault = "none" THEN "insertOrg" ELSE fault,
         organizations |-> o, userRoles |-> r,
         users |-> u, writes |-> w,
         nextId |-> [org  |-> nextId.org  + (IF o = organizations THEN 0 ELSE 1),
                     role |-> nextId.role + (IF r = userRoles THEN 0 ELSE 1),
                     user |-> nextId.user + (IF u = users THEN 0 ELSE 1)]]
      Nothing(err) == Out(None, err, organizations, userRoles, users, <<>>)
  IN  IF fault = "existing"
        THEN Nothing("storage error")
      ELSE IF existingUser # None
        THEN Nothing("User with this email already exists")
      ELSE IF userData.organizationName = Missing \/ userData.organizationSubdomain = Missing
        THEN Nothing("Organization information is required")
      ELSE IF fault = "insertOrg" \/ SubdomainTaken(userData.organizationSubdomain)
        THEN Nothing("storage error")
      ELSE IF fault = "insertRole"
        THEN Out(None, "storage error", orgs1, userRoles, users, <<"organization">>)
      ELSE IF fault \in {"selectRole", "insertUser"}
        THEN Out(None, "storage error", orgs1, roles1, users, <<"organization", "role">>)
      ELSE IF fault = "refetch"
        THEN Out(None, "storage error", orgs1, roles1, users1,
                 <<"organization", "role", "user">>)
      ELSE Out(SelectedColumns(joined), "", orgs1, roles1, users1,
               <<"organization", "role", "user">>)

\* ------------------------------------------------- Request Context Loader
\* loadUserContext without the test of organization.isActive
LoadUserContext_IgnoresOrganization(sessionUserId, fault) ==
  LET userWithOrg == First({ r \in UsersWithOrg : r.id = sessionUserId })
  IN  IF sessionUserId = 0
        THEN [userId |-> 0, user |-> None, next |-> 1, error |-> ""]
      ELSE IF fault
        THEN [userId |-> 0, user |-> None, next |-> 1,
              error |-> "User context loading error"]
      ELSE IF userWithOrg # None /\ userWithOrg.isActive
        THEN [userId |-> sessionUserId, user |-> SelectedColumns(userWithOrg),
              next |-> 1, error |-> ""]
      ELSE [userId |-> 0, user |-> None, next |-> 1, error |-> ""]

\* loadUserContext whose catch block does not delete req.session.userId
LoadUserContext_KeepsSessionOnError(sessionUserId, fault) ==
  LET userWithOrg == First({ r \in UsersWithOrg : r.id = sessionUserId })
  IN  IF sessionUserId = 0
        THEN [userId |-> 0, user |-> None, next |-> 1, error |-> ""]
      ELSE IF fault
        THEN [userId |-> sessionUserId, user |-> None, next |-> 1,
              error |-> "User context loading error"]
      ELSE IF userWithOrg # None /\ userWithOrg.isActive /\ userWithOrg.organization.isActive
        THEN [userId |-> sessionUserId, user |-> SelectedColumns(userWithOrg),
              next |-> 1, error |-> ""]
      ELSE [userId |-> 0, user |-> None, next |-> 1, error |-> ""]

\* loadUserContext whose catch block rethrows: next() is not reached
LoadUserContext_RethrowsError(sessionUserId, fault) ==
  LET userWithOrg == First({ r \in UsersWithOrg : r.id = sessionUserId })
  IN  IF sessionUserId = 0
        THEN [userId |-> 0, user |-> None, next |-> 1, error |-> ""]
      ELSE IF fault
        THEN [userId |-> sessionUserId, user |-> None, next |-> 0,
              error |-> "User context loading error"]
      ELSE IF userWithOrg # None /\ userWithOrg.isActive /\ userWithOrg.organization.isActive
        THEN [userId |-> sessionUserId, user |-> SelectedColumns(userWithOrg),
              next |-> 1, error |-> ""]
      ELSE [userId |-> 0, user |-> None, next |-> 1, error |-> ""]

\* loadUserContext that attaches no identity for an invalid session and leaves
\* req.session.userId in place
LoadUserContext_KeepsInvalidSession(sessionUserId, fault) ==
  LET userWithOrg == First({ r \in UsersWithOrg : r.id = sessionUserId })
  IN  IF sessionUserId = 0
        THEN [userId |-> 0, user |-> None, next |-> 1, error |-> ""]
      ELSE IF fault
        THEN [userId |-> 0, user |-> None, next |-> 1,
              error |-> "User context loading error"]
      ELSE IF userWithOrg # None /\ userWithOrg.isActive /\ userWithOrg.organization.isActive
        THEN [userId |-> sessionUserId, user |-> SelectedColumns(userWithOrg),
              next |-> 1, error |-> ""]
      ELSE [userId |-> sessionUserId, user |-> None, next |-> 1, error |-> ""]

\* loadUserContext(req, res, next): the session's userId after the loader,
\* the identity it attached to the request and how often it called next()
LoadUserContext(sessionUserId, fault) ==
  LET userWithOrg == First({ r \in UsersWithOrg : r.id = sessionUserId })
  IN  IF sessionUserId = 0
        THEN [userId |-> 0, user |-> None, next |-> 1, error |-> ""]
      ELSE IF fault
        THEN [userId |-> 0, user |-> None, next |-> 1,
              error |-> "User context loading error"]
      ELSE IF userWithOrg # None /\ userWithOrg.isActive /\ userWithOrg.organization.isActive
        THEN [userId |-> sessionUserId, user |-> SelectedColumns(userWithOrg),
              next |-> 1, error |-> ""]
      ELSE [userId |-> 0, user |-> None, next |-> 1, error |-> ""]

\* ----------------------------------------------------- Authorization Gate
\* requireAuth(req, res, next): the response it sends, or next
RequireAuth(sessionUserId) ==
  IF sessionUserId = 0
    THEN [next |-> FALSE, status |-> 401, message |-> "Authentication required"]
    ELSE [next |-> TRUE, status |-> 0, message |-> ""]

\* requireRole that matches requiredRoles against the role's name only
RequireRole_NameOnly(requiredRoles, reqUser, fault) ==
  LET userRole == First({ r \in userRoles : r.id = reqUser.roleId })
      hasRequiredRole ==
        \E role \in requiredRoles :
          userRole.name = role
      selected == IF userRole = None THEN None
                  ELSE [name |-> userRole.name, permissions |-> userRole.permissions]
      Reject(st, msg) == [next |-> FALSE, status |-> st, message |-> msg, role |-> selected]
  IN  IF reqUser = None
        THEN [next |-> FALSE, status |-> 401, message |-> "Authentication required",
              role |-> None]
      ELSE IF fault
        THEN [next |-> FALSE, status |-> 500, message |-> "Authorization error",
              role |-> None]
      ELSE IF userRole = None
        THEN Reject(403, "No role found")
      ELSE IF "*" \in userRole.permissions
        THEN [next |-> TRUE, status |-> 0, message |-> "", role |-> selected]
      ELSE IF ~hasRequiredRole
        THEN Reject(403, "Insufficient permissions")
      ELSE [next |-> TRUE, status |-> 0, message |-> "", role |-> selected]

\* requireRole whose catch block calls next()
RequireRole_PassesOnError(requiredRoles, reqUser, fault) ==
  LET userRole == First({ r \in userRoles : r.id = reqUser.roleId })
      hasRequiredRole ==
        \E role \in requiredRoles :
          userRole.name = role \/ role \in userRole.permissions
      selected == IF userRole = None THEN None
                  ELSE [name |-> userRole.name, permissions |-> userRole.permissions]
      Reject(st, msg) == [next |-> FALSE, status |-> st, message |-> msg, role |-> selected]
  IN  IF reqUser = None
        THEN [next |-> FALSE, status |-> 401, message |-> "Authentication required",
              role |-> None]
      ELSE IF fault
        THEN [next |-> TRUE, status |-> 0, message |-> "", role |-> None]
      ELSE IF userRole = None
        THEN Reject(403, "No role found")
      ELSE IF "*" \in userRole.permissions
        THEN [next |-> TRUE, status |-> 0, message |-> "", role |-> selected]
      ELSE IF ~hasRequiredRole
        THEN Reject(403, "Insufficient permissions")
      ELSE [next |-> TRUE, status |-> 0, message |-> "", role |-> selected]

\* requireRole that reuses the role the previous request fetched
RequireRole_CachedRole(requiredRoles, reqUser, fault) ==
  LET userRole == IF last.role # None THEN last.role
                  ELSE First({ r \in userRoles : r.id = reqUser.roleId })
      hasRequiredRole ==
        \E role \in requiredRoles :
          userRole.name = role \/ role \in userRole.permissions
      selected == IF userRole = None THEN None
                  ELSE [name |-> userRole.name, permissions |-> userRole.permissions]
      Reject(st, msg) == [next |-> FALSE, status |-> st, message |-> msg, role |-> selected]
  IN  IF reqUser = None
        THEN [next |-> FALSE, status |-> 401, message |-> "Authentication required",
              role |-> None]
      ELSE IF fault
        THEN [next |-> FALSE, status |-> 500, message |-> "Authorization error",
              role |-> None]
      ELSE IF userRole = None
        THEN Reject(403, "No role found")
      ELSE IF "*" \in userRole.permissions
        THEN [next |-> TRUE, status |-> 0, message |-> "", role |-> selected]
      ELSE IF ~hasRequiredRole
        THEN Reject(403, "Insufficient permissions")
      ELSE [next |-> TRUE, status |-> 0, message |-> "", role |-> selected]

\* requireRole(requiredRoles)(req, res, next)
RequireRole(requiredRoles, reqUser, fault) ==
  LET userRole == First({ r \in userRoles : r.id = reqUser.roleId })
      hasRequiredRole ==
        \E role \in requiredRoles :
          userRole.name = role \/ role \in userRole.permissions
      selected == IF userRole = None THEN None
                  ELSE [name |-> userRole.name, permissions |-> userRole.permissions]
      Reject(st, msg) == [next |-> FALSE, status |-> st, message |-> msg, role |-> selected]
  IN  IF reqUser = None
        THEN [next |-> FALSE, status |-> 401, message |-> "Authentication required",
              role |-> None]
      ELSE IF fault
        THEN [next |-> FALSE, status |-> 500, message |-> "Authorization error",
              role |-> None]
      ELSE IF userRole = None
        THEN Reject(403, "No role found")
      ELSE IF "*" \in userRole.permissions
        THEN [next |-> TRUE, status |-> 0, message |-> "", role |-> selected]
      ELSE IF ~hasRequiredRole
        THEN Reject(403, "Insufficient permissions")
      ELSE [next |-> TRUE, status |-> 0, message |-> "", role |-> selected]

\* -------------------------------------------------------- Session Binding
\* uid-safe: a session id that was never issued (0: the bound is exhausted)
FreshSid ==
  IF Tokens \ issued = {} THEN 0
  ELSE CHOOSE t \in Tokens \ issued : \A t2 \in Tokens \ issued : t <= t2

\* express-session on an inbound request: the stored session the cookie names,
\* or a newly generated one when there is no cookie or no stored record
LoadSession(cookie) ==
  IF cookie # NoCookie /\ sessionStore[cookie] # NoRecord
    THEN [sid |-> cookie, userId |-> sessionStore[cookie], isNew |-> FALSE]
    ELSE [sid |-> FreshSid, userId |-> 0, isNew |-> TRUE]

\* express-session at the end of the response (resave: false,
\* saveUninitialized: false): a modified session is written to the store
SaveSession(sess, userId) ==
  IF userId = sess.userId
    THEN /\ sessionStore' = sessionStore
         /\ issued' = issued
    ELSE /\ sess.sid # 0
         /\ sessionStore' = [sessionStore EXCEPT ![sess.sid] = userId]
         /\ issued' = issued \cup {sess.sid}

\* a destroy that reports success and leaves the record in the store
DestroySession_KeepsRecord(sess, storeFails) ==
  /\ issued' = issued
  /\ sessionStore' = sessionStore

\* req.session.destroy(cb): the store record is removed, or the store raises
DestroySession(sess, storeFails) ==
  /\ issued' = issued
  /\ sessionStore' = IF storeFails \/ sess.isNew THEN sessionStore
                     ELSE [sessionStore EXCEPT ![sess.sid] = NoRecord]

\* ---------------------------------------------- registerUser calls in flight
\* registerUser calls that may be between two of their awaits at one time
Calls == 1..MaxCalls

\* a call that has not been made
IdleCall == [pc |-> "idle", userData |-> None, hashedPassword |-> None,
             organizationId |-> 0, roleId |-> 0, userId |-> 0,
             result |-> None, error |-> ""]

\* users.email is unique: an insert of a second row with the email raises
EmailTaken(email) == \E u \in users : u.email = email

\* the catch block of registerUser: the call is over and returns null
Caught(call, err) == [call EXCEPT !.pc = "done", !.result = None, !.error = err]

\* ------------------------------------------------------- request records
\* what the last request did: its inputs, what the middleware attached and
\* what the route answered
NoRequest ==
  [route |-> "init", cookie |-> NoCookie, sid |-> 0, loadedUserId |-> 0,
   sessionUserId |-> 0, nextCalls |-> 0,
   user |-> None, loaderError |-> "", status |-> 0, message |-> "",
   body |-> None, result |-> None, writes |-> <<>>, error |-> "", raised |-> "",
   email |-> Missing, password |-> Missing,
   organizationName |-> Missing, organizationSubdomain |-> Missing,
   requiredRoles |-> {}, role |-> None, handlerRan |-> FALSE,
   hash |-> None, hashedPlaintext |-> Missing, matches |-> FALSE, threw |-> FALSE]

Request(route, cookie, sess, ctx, fields) ==
  fields @@ [route |-> route, cookie |-> cookie, sid |-> sess.sid,
             loadedUserId |-> sess.userId, sessionUserId |-> ctx.userId, user |-> ctx.user,
             loaderError |-> ctx.error, nextCalls |-> ctx.next] @@ NoRequest

\* res.json({ user: { id, email, username, fullName, organization } })
UserBody(user) ==
  [id |-> user.id, email |-> user.email, username |-> user.username,
   organization |-> user.organization]

\* the cookies a client can present: none, or a session id it was issued
Cookies == issued \cup {NoCookie}

Init ==
  /\ organizations = {}
  /\ userRoles = {}
  /\ users = {}
  /\ nextId = [org |-> 1, role |-> 1, user |-> 1]
  /\ sessionStore = [t \in Tokens |-> NoRecord]
  /\ issued = {}
  /\ plaintext = [id \in 1..(MaxUsers + 1) |-> Missing]
  /\ last = NoRequest
  /\ calls = [c \in Calls |-> IdleCall]

\* ------------------------------------------------------------------ routes
\* a register route without req.session.userId = user.id
Register_NoSessionBinding(cookie, userData, loaderFault, fault) ==
  /\ UNCHANGED calls
  /\ \E sess \in {LoadSession(cookie)} :
     \E ctx \in {LoadUserContext(sess.userId, loaderFault)} :
     \E reg \in {RegisterUser(userData, nextId.user, fault)} :
     LET in == [email |-> userData.email, password |-> userData.password,
                organizationName |-> userData.organizationName,
                organizationSubdomain |-> userData.organizationSubdomain]
     IN  /\ loaderFault => sess.userId # 0
         /\ IF \/ userData.email = Missing \/ userData.password = Missing
               \/ userData.username = Missing
              THEN /\ fault = "none"
                   /\ UNCHANGED <<db, plaintext>>
                   /\ SaveSession(sess, ctx.userId)
                   /\ last' = Request("register", cookie, sess, ctx, in @@
                        [status |-> 400,
                         message |-> "Email, password, and username are required"])
            ELSE IF \/ userData.organizationName = Missing
                    \/ userData.organizationSubdomain = Missing
              THEN /\ fault = "none"
                   /\ UNCHANGED <<db, plaintext>>
                   /\ SaveSession(sess, ctx.userId)
                   /\ last' = Request("register", cookie, sess, ctx, in @@
                        [status |-> 400,
                         message |-> "Organization name and subdomain are required"])
            ELSE /\ reg.nextId.org <= MaxOrgs + 1
                 /\ reg.nextId.user <= MaxUsers + 1
                 /\ fault # "none" => reg.raised = fault
                 /\ organizations' = reg.organizations
                 /\ userRoles' = reg.userRoles
                 /\ users' = reg.users
                 /\ nextId' = reg.nextId
                 /\ plaintext' = IF reg.users = users THEN plaintext
                                 ELSE [plaintext EXCEPT ![nextId.user] = userData.password]
                 /\ IF reg.result = None
                      THEN /\ SaveSession(sess, ctx.userId)
                           /\ last' = Request("register", cookie, sess, ctx, in @@
                                [status |-> 400, message |-> "Registration failed",
                                 writes |-> reg.writes, error |-> reg.error,
                                 raised |-> reg.raised])
                      ELSE /\ SaveSession(sess, ctx.userId)
                           /\ last' = Request("register", cookie, sess, ctx, in @@
                                [status |-> 200, body |-> UserBody(reg.result),
                                 result |-> reg.result, writes |-> reg.writes])

\* POST /api/auth/register
Register(cookie, userData, loaderFault, fault) ==
  /\ UNCHANGED calls
  /\ \E sess \in {LoadSession(cookie)} :
     \E ctx \in {LoadUserContext(sess.userId, loaderFault)} :
     \E reg \in {RegisterUser(userData, nextId.user, fault)} :
     LET in == [email |-> userData.email, password |-> userData.password,
                organizationName |-> userData.organizationName,
                organizationSubdomain |-> userData.organizationSubdomain]
     IN  /\ loaderFault => sess.userId # 0
         /\ IF \/ userData.email = Missing \/ userData.password = Missing
               \/ userData.username = Missing
              THEN /\ fault = "none"
                   /\ UNCHANGED <<db, plaintext>>
                   /\ SaveSession(sess, ctx.userId)
                   /\ last' = Request("register", cookie, sess, ctx, in @@
                        [status |-> 400,
                         message |-> "Email, password, and username are required"])
            ELSE IF \/ userData.organizationName = Missing
                    \/ userData.organizationSubdomain = Missing
              THEN /\ fault = "none"
                   /\ UNCHANGED <<db, plaintext>>
                   /\ SaveSession(sess, ctx.userId)
                   /\ last' = Request("register", cookie, sess, ctx, in @@
                        [status |-> 400,
                         message |-> "Organization name and subdomain are required"])
            ELSE /\ reg.nextId.org <= MaxOrgs + 1
                 /\ reg.nextId.user <= MaxUsers + 1
                 /\ fault # "none" => reg.raised = fault
                 /\ organizations' = reg.organizations
                 /\ userRoles' = reg.userRoles
                 /\ users' = reg.users
                 /\ nextId' = reg.nextId
                 /\ plaintext' = IF reg.users = users THEN plaintext
                                 ELSE [plaintext EXCEPT ![nextId.user] = userData.password]
                 /\ IF reg.result = None
                      THEN /\ SaveSession(sess, ctx.userId)
                           /\ last' = Request("register", cookie, sess, ctx, in @@
                                [status |-> 400, message |-> "Registration failed",
                                 writes |-> reg.writes, error |-> reg.error,
                                 raised |-> reg.raised])
                      ELSE /\ SaveSession(sess, reg.result.id)
                           /\ last' = Request("register", cookie, sess, ctx, in @@
                                [status |-> 200, body |-> UserBody(reg.result),
                                 result |-> reg.result, writes |-> reg.writes])

\* a login route that assigns req.session.userId before it tests the result
Login_BindsBeforeCheck(cookie, email, password, loaderFault, fault) ==
  /\ UNCHANGED calls
  /\ \E sess \in {LoadSession(cookie)} :
     \E ctx \in {LoadUserContext(sess.userId, loaderFault)} :
     \E auth \in {AuthenticateUser(email, password, fault)} :
     LET in == [email |-> email, password |-> password]
     IN  /\ loaderFault => sess.userId # 0
         /\ UNCHANGED <<organizations, userRoles, nextId, plaintext>>
         /\ IF email = Missing \/ password = Missing
              THEN /\ fault = "none"
                   /\ UNCHANGED users
                   /\ SaveSession(sess, ctx.userId)
                   /\ last' = Request("login", cookie, sess, ctx, in @@
                        [status |-> 400, message |-> "Email and password are required"])
              ELSE /\ fault # "none" => auth.raised = fault
                   /\ users' = auth.users
                   /\ IF auth.result = None
                        THEN /\ SaveSession(sess, auth.result.id)
                             /\ last' = Request("login", cookie, sess, ctx, in @@
                                  [status |-> 401, message |-> "Invalid credentials",
                                   raised |-> auth.raised,
                                   error |-> IF auth.raised = "" THEN ""
                                             ELSE "Authentication error"])
                        ELSE /\ SaveSession(sess, auth.result.id)
                             /\ last' = Request("login", cookie, sess, ctx, in @@
                                  [status |-> 200, body |-> UserBody(auth.result),
                                   result |-> auth.result])

\* a login that binds the session to the user of the email before the
\* password has been verified
Login_BindsKnownEmail(cookie, email, password, loaderFault, fault) ==
  /\ UNCHANGED calls
  /\ \E sess \in {LoadSession(cookie)} :
     \E ctx \in {LoadUserContext(sess.userId, loaderFault)} :
     \E auth \in {AuthenticateUser(email, password, fault)} :
     LET in == [email |-> email, password |-> password]
     IN  /\ loaderFault => sess.userId # 0
         /\ UNCHANGED <<organizations, userRoles, nextId, plaintext>>
         /\ IF email = Missing \/ password = Missing
              THEN /\ fault = "none"
                   /\ UNCHANGED users
                   /\ SaveSession(sess, ctx.userId)
                   /\ last' = Request("login", cookie, sess, ctx, in @@
                        [status |-> 400, message |-> "Email and password are required"])
              ELSE /\ fault # "none" => auth.raised = fault
                   /\ users' = auth.users
                   /\ IF auth.result = None
                        THEN /\ SaveSession(sess, First({ u \in users : u.email = email }).id)
                             /\ last' = Request("login", cookie, sess, ctx, in @@
                                  [status |-> 401, message |-> "Invalid credentials",
                                   raised |-> auth.raised,
                                   error |-> IF auth.raised = "" THEN ""
                                             ELSE "Authentication error"])
                        ELSE /\ SaveSession(sess, auth.result.id)
                             /\ last' = Request("login", cookie, sess, ctx, in @@
                                  [status |-> 200, body |-> UserBody(auth.result),
                                   result |-> auth.result])

\* POST /api/auth/login
Login(cookie, email, password, loaderFault, fault) ==
  /\ UNCHANGED calls
  /\ \E sess \in {LoadSession(cookie)} :
     \E ctx \in {LoadUserContext(sess.userId, loaderFault)} :
     \E auth \in {AuthenticateUser(email, password, fault)} :
     LET in == [email |-> email, password |-> password]
     IN  /\ loaderFault => sess.userId # 0
         /\ UNCHANGED <<organizations, userRoles, nextId, plaintext>>
         /\ IF email = Missing \/ password = Missing
              THEN /\ fault = "none"
                   /\ UNCHANGED users
                   /\ SaveSession(sess, ctx.userId)
                   /\ last' = Request("login", cookie, sess, ctx, in @@
                        [status |-> 400, message |-> "Email and password are required"])
              ELSE /\ fault # "none" => auth.raised = fault
                   /\ users' = auth.users
                   /\ IF auth.result = None
                        THEN /\ SaveSession(sess, ctx.userId)
                             /\ last' = Request("login", cookie, sess, ctx, in @@
                                  [status |-> 401, message |-> "Invalid credentials",
                                   raised |-> auth.raised,
                                   error |-> IF auth.raised = "" THEN ""
                                             ELSE "Authentication error"])
                        ELSE /\ SaveSession(sess, auth.result.id)
                             /\ last' = Request("login", cookie, sess, ctx, in @@
                                  [status |-> 200, body |-> UserBody(auth.result),
                                   result |-> auth.result])

\* POST /api/auth/logout
Logout(cookie, loaderFault, storeFails) ==
  /\ UNCHANGED calls
  /\ \E sess \in {LoadSession(cookie)} :
     \E ctx \in {LoadUserContext(sess.userId, loaderFault)} :
         /\ loaderFault => sess.userId # 0
         /\ UNCHANGED <<db, plaintext>>
         /\ DestroySession(sess, storeFails)
         /\ last' = Request("logout", cookie, sess, ctx,
                      IF storeFails
                        THEN [status |-> 500, message |-> "Logout failed",
                              error |-> "Logout error", raised |-> "destroy"]
                        ELSE [status |-> 200, message |-> "Logged out successfully"])

\* a /api/auth/me without requireAuth and without the test of req.user
Me_AnswersWithoutUser(cookie, loaderFault) ==
  /\ UNCHANGED calls
  /\ \E sess \in {LoadSession(cookie)} :
     \E ctx \in {LoadUserContext(sess.userId, loaderFault)} :
         /\ loaderFault => sess.userId # 0
         /\ UNCHANGED <<db, plaintext>>
         /\ SaveSession(sess, ctx.userId)
         /\ last' = Request("me", cookie, sess, ctx,
                      [status |-> 200,
                       body |-> IF ctx.user # None THEN UserBody(ctx.user) ELSE None,
                       handlerRan |-> TRUE])

\* GET /api/auth/me
Me(cookie, loaderFault) ==
  /\ UNCHANGED calls
  /\ \E sess \in {LoadSession(cookie)} :
     \E ctx \in {LoadUserContext(sess.userId, loaderFault)} :
     \E gate \in {RequireAuth(ctx.userId)} :
         /\ loaderFault => sess.userId # 0
         /\ UNCHANGED <<db, plaintext>>
         /\ SaveSession(sess, ctx.userId)
         /\ last' = Request("me", cookie, sess, ctx,
                      IF ~gate.next
                        THEN [status |-> gate.status, message |-> gate.message]
                      ELSE IF ctx.user # None
                        THEN [status |-> 200, body |-> UserBody(ctx.user),
                              handlerRan |-> TRUE]
                        ELSE [status |-> 401, message |-> "Not authenticated",
                              handlerRan |-> TRUE])

\* a route guarded by requireRole(requiredRoles)
Gated(cookie, requiredRoles, loaderFault, roleFault) ==
  /\ UNCHANGED calls
  /\ \E sess \in {LoadSession(cookie)} :
     \E ctx \in {LoadUserContext(sess.userId, loaderFault)} :
     \E gate \in {RequireRole(requiredRoles, ctx.user, roleFault)} :
         /\ loaderFault => sess.userId # 0
         /\ roleFault => ctx.user # None
         /\ UNCHANGED <<db, plaintext>>
         /\ SaveSession(sess, ctx.userId)
         /\ last' = Request("gated", cookie, sess, ctx,
                      [requiredRoles |-> requiredRoles, role |-> gate.role] @@
                      (IF gate.next
                         THEN [status |-> 200, handlerRan |-> TRUE]
                         ELSE [status |-> gate.status, message |-> gate.message,
                               error |-> IF gate.status = 500 THEN "Role check error" ELSE "",
                               raised |-> IF gate.status = 500 THEN "role" ELSE ""]))

\* storage.updateUser(id, userData): the columns userData names are set
StorageUpdateUser(id, userData) ==
  { IF u.id = id
      THEN [f \in DOMAIN u |-> IF f \in DOMAIN userData THEN userData[f] ELSE u[f]]
      ELSE u : u \in users }

\* storage.deleteUser(id)
StorageDeleteUser(id) == { u \in users : u.id # id }

\* a PUT /api/users/:id that binds the session to the user it edited
UpdateUser_BindsEditedUser(cookie, id, userData, loaderFault) ==
  /\ UNCHANGED calls
  /\ \E sess \in {LoadSession(cookie)} :
     \E ctx \in {LoadUserContext(sess.userId, loaderFault)} :
     LET found == \E u \in users : u.id = id
     IN  /\ loaderFault => sess.userId # 0
         /\ UNCHANGED <<organizations, userRoles, nextId, plaintext>>
         /\ users' = StorageUpdateUser(id, userData)
         /\ SaveSession(sess, IF found THEN id ELSE ctx.userId)
         /\ last' = Request("updateUser", cookie, sess, ctx,
                      IF found THEN [status |-> 200, handlerRan |-> TRUE]
                      ELSE [status |-> 404, message |-> "User not found", handlerRan |-> TRUE])

\* PUT /api/users/:id with body userData (insertUserSchema.partial())
UpdateUser(cookie, id, userData, loaderFault) ==
  /\ UNCHANGED calls
  /\ \E sess \in {LoadSession(cookie)} :
     \E ctx \in {LoadUserContext(sess.userId, loaderFault)} :
     LET found == \E u \in users : u.id = id
     IN  /\ loaderFault => sess.userId # 0
         /\ UNCHANGED <<organizations, userRoles, nextId, plaintext>>
         /\ users' = StorageUpdateUser(id, userData)
         /\ SaveSession(sess, ctx.userId)
         /\ last' = Request("updateUser", cookie, sess, ctx,
                      IF found THEN [status |-> 200, handlerRan |-> TRUE]
                      ELSE [status |-> 404, message |-> "User not found", handlerRan |-> TRUE])

\* DELETE /api/users/:id
DeleteUser(cookie, id, loaderFault) ==
  /\ UNCHANGED calls
  /\ \E sess \in {LoadSession(cookie)} :
     \E ctx \in {LoadUserContext(sess.userId, loaderFault)} :
     LET found == \E u \in users : u.id = id
     IN  /\ loaderFault => sess.userId # 0
         /\ UNCHANGED <<organizations, userRoles, nextId, plaintext>>
         /\ users' = StorageDeleteUser(id)
         /\ SaveSession(sess, ctx.userId)
         /\ last' = Request("deleteUser", cookie, sess, ctx,
                      IF found THEN [status |-> 200, message |-> "User deleted successfully",
                                     handlerRan |-> TRUE]
                      ELSE [status |-> 404, message |-> "User not found", handlerRan |-> TRUE])

\* storage.createUser(userData): the row is inserted as given
StorageCreateUser(userData) ==
  users \cup { [id |-> nextId.user, username |-> userData.username,
                email |-> userData.email, password |-> RawString(userData.password),
                organizationId |-> userData.organizationId, roleId |-> userData.roleId,
                isActive |-> TRUE, lastLogin |-> 0] }

\* POST /api/users with body userData (insertUserSchema); users.email is
\* unique, so the insert of a taken email raises
CreateUser(cookie, userData, loaderFault) ==
  /\ UNCHANGED calls
  /\ \E sess \in {LoadSession(cookie)} :
     \E ctx \in {LoadUserContext(sess.userId, loaderFault)} :
     LET taken == \E u \in users : u.email = userData.email
         in == [email |-> userData.email, password |-> userData.password]
     IN  /\ loaderFault => sess.userId # 0
         /\ nextId.user <= MaxUsers
         /\ UNCHANGED <<organizations, userRoles, plaintext>>
         /\ SaveSession(sess, ctx.userId)
         /\ IF taken
              THEN /\ UNCHANGED <<users, nextId>>
                   /\ last' = Request("createUser", cookie, sess, ctx, in @@
                        [status |-> 400, message |-> "Invalid user data",
                         handlerRan |-> TRUE])
              ELSE /\ users' = StorageCreateUser(userData)
                   /\ nextId' = [nextId EXCEPT !.user = @ + 1]
                   /\ last' = Request("createUser", cookie, sess, ctx, in @@
                        [status |-> 200, writes |-> <<"user">>, handlerRan |-> TRUE])

\* AuthService.registerUser(userData) called without the route's own checks
RegisterUserCall(userData, fault) ==
  /\ UNCHANGED calls
  /\ \E reg \in {RegisterUser(userData, nextId.user, fault)} :
         /\ reg.nextId.org <= MaxOrgs + 1
         /\ reg.nextId.user <= MaxUsers + 1
         /\ fault # "none" => reg.raised = fault
         /\ organizations' = reg.organizations
         /\ userRoles' = reg.userRoles
         /\ users' = reg.users
         /\ nextId' = reg.nextId
         /\ plaintext' = IF reg.users = users THEN plaintext
                         ELSE [plaintext EXCEPT ![nextId.user] = userData.password]
         /\ UNCHANGED <<sessionStore, issued>>
         /\ last' = [route |-> "registerUser", email |-> userData.email,
                     password |-> userData.password,
                     organizationName |-> userData.organizationName,
                     organizationSubdomain |-> userData.organizationSubdomain,
                     result |-> reg.result, writes |-> reg.writes, error |-> reg.error,
                     raised |-> reg.raised] @@ NoRequest

\* AuthService.hashPassword(password)
HashPasswordCall(password, salt) ==
  /\ UNCHANGED calls
  /\ UNCHANGED <<db, sessionStore, issued, plaintext>>
  /\ last' = [route |-> "hashPassword", password |-> password,
              hash |-> HashPassword(password, salt),
              hashedPlaintext |-> password] @@ NoRequest

\* AuthService.comparePassword(password, hash) on the hash at hand
ComparePasswordCall(password) ==
  /\ UNCHANGED calls
  /\ last.hash # None
  /\ UNCHANGED <<db, sessionStore, issued, plaintext>>
  /\ last' = [route |-> "comparePassword", password |-> password,
              hash |-> last.hash, hashedPlaintext |-> last.hashedPlaintext,
              threw |-> CompareRaises(last.hash),
              matches |-> IF CompareRaises(last.hash) THEN FALSE
                          ELSE ComparePassword(password, last.hash)] @@ NoRequest

\* a stored password that is not a bcrypt hash is read from users.password
ReadMalformedHash(str) ==
  /\ UNCHANGED calls
  /\ UNCHANGED <<db, sessionStore, issued, plaintext>>
  /\ last' = [route |-> "store", hash |-> RawString(str)] @@ NoRequest

\* ------------------------------ registerUser, one storage call at a time
\* registerUser(userData) up to its first storage call: the password is hashed
RegisterUserHash(c, userData) ==
  /\ calls[c].pc = "idle"
  /\ calls' = [calls EXCEPT ![c] =
                 [IdleCall EXCEPT !.pc = "selectExisting", !.userData = userData,
                                  !.hashedPassword = HashPassword(userData.password, c)]]
  /\ UNCHANGED <<db, sessionStore, issued, plaintext, last>>

\* the select of the existing user, the test of its result and the test of
\* the organization fields, which follow it with no await between them
RegisterUserSelectExisting(c) ==
  /\ calls[c].pc = "selectExisting"
  /\ calls' = [calls EXCEPT ![c] =
                 IF First({ u \in users : u.email = @.userData.email }) # None
                   THEN Caught(@, "User with this email already exists")
                 ELSE IF \/ @.userData.organizationName = Missing
                         \/ @.userData.organizationSubdomain = Missing
                   THEN Caught(@, "Organization information is required")
                 ELSE [@ EXCEPT !.pc = "insertOrg"]]
  /\ UNCHANGED <<db, sessionStore, issued, plaintext, last>>

\* db.insert(organizations)
RegisterUserInsertOrganization(c) ==
  /\ calls[c].pc = "insertOrg"
  /\ IF SubdomainTaken(calls[c].userData.organizationSubdomain)
       THEN /\ calls' = [calls EXCEPT ![c] = Caught(@, "storage error")]
            /\ UNCHANGED <<organizations, nextId>>
       ELSE /\ organizations' = organizations \cup
                  {[id |-> nextId.org, name |-> calls[c].userData.organizationName,
                    subdomain |-> calls[c].userData.organizationSubdomain,
                    isActive |-> TRUE]}
            /\ nextId' = [nextId EXCEPT !.org = @ + 1]
            /\ calls' = [calls EXCEPT ![c].pc = "insertRole",
                                      ![c].organizationId = nextId.org]
  /\ UNCHANGED <<userRoles, users, sessionStore, issued, plaintext, last>>

\* db.insert(userRoles) of the 'admin' role of the new organization
RegisterUserInsertRole(c) ==
  /\ calls[c].pc = "insertRole"
  /\ userRoles' = userRoles \cup
        {[id |-> nextId.role, name |-> "admin", permissions |-> {"*"},
          organizationId |-> calls[c].organizationId]}
  /\ nextId' = [nextId EXCEPT !.role = @ + 1]
  /\ calls' = [calls EXCEPT ![c].pc = "selectRole"]
  /\ UNCHANGED <<organizations, users, sessionStore, issued, plaintext, last>>

\* the select of the 'admin' role of the organization
RegisterUserSelectRole(c) ==
  /\ calls[c].pc = "selectRole"
  /\ \E adminRole \in {First({ r \in userRoles :
                                 /\ r.organizationId = calls[c].organizationId
                                 /\ r.name = "admin" })} :
       calls' = [calls EXCEPT ![c] =
                   IF adminRole = None THEN Caught(@, "storage error")
                   ELSE [@ EXCEPT !.pc = "insertUser", !.roleId = adminRole.id]]
  /\ UNCHANGED <<db, sessionStore, issued, plaintext, last>>

\* db.insert(users)
RegisterUserInsertUser(c) ==
  /\ calls[c].pc = "insertUser"
  /\ IF EmailTaken(calls[c].userData.email)
       THEN /\ calls' = [calls EXCEPT ![c] = Caught(@, "storage error")]
            /\ UNCHANGED <<users, nextId, plaintext>>
       ELSE /\ users' = users \cup
                  {[id |-> nextId.user, username |-> calls[c].userData.username,
                    email |-> calls[c].userData.email,
                    password |-> calls[c].hashedPassword,
                    organizationId |-> calls[c].organizationId,
                    roleId |-> calls[c].roleId,
                    isActive |-> TRUE, lastLogin |-> 0]}
            /\ nextId' = [nextId EXCEPT !.user = @ + 1]
            /\ plaintext' = [plaintext EXCEPT ![nextId.user] = calls[c].userData.password]
            /\ calls' = [calls EXCEPT ![c].pc = "refetch", ![c].userId = nextId.user]
  /\ UNCHANGED <<organizations, userRoles, sessionStore, issued, last>>

\* the select of the new user joined with its organization, and the return
RegisterUserRefetch(c) ==
  /\ calls[c].pc = "refetch"
  /\ \E userWithOrg \in {First({ r \in UsersWithOrg : r.id = calls[c].userId })} :
       calls' = [calls EXCEPT ![c] =
                   [@ EXCEPT !.pc = "done",
                             !.result = IF userWithOrg = None THEN None
                                        ELSE SelectedColumns(userWithOrg)]]
  /\ UNCHANGED <<db, sessionStore, issued, plaintext, last>>

\* ------------------------------------------- edits made in the store itself
\* organizations.isActive is set by the operator of the database
SetOrganizationActive(id, isActive) ==
  /\ UNCHANGED calls
  /\ \E o \in organizations : o.id = id /\ o.isActive # isActive
  /\ organizations' = { IF o.id = id THEN [o EXCEPT !.isActive = isActive] ELSE o :
                        o \in organizations }
  /\ UNCHANGED <<userRoles, users, nextId, sessionStore, issued, plaintext>>
  /\ last' = [NoRequest EXCEPT !.route = "store"]

\* a role's name and permissions are edited in user_roles
UpdateRole(id, shape) ==
  /\ UNCHANGED calls
  /\ \E r \in userRoles :
       r.id = id /\ <<r.name, r.permissions>> # <<shape.name, shape.permissions>>
  /\ userRoles' = { IF r.id = id
                      THEN [r EXCEPT !.name = shape.name, !.permissions = shape.permissions]
                      ELSE r : r \in userRoles }
  /\ UNCHANGED <<organizations, users, nextId, sessionStore, issued, plaintext>>
  /\ last' = [NoRequest EXCEPT !.route = "store"]

\* ------------------------------------------------------------------ inputs
\* complete request bodies of POST /api/auth/register
OrgInputs == { <<OrgNames[i], Subdomains[i]>> : i \in 1..MaxOrgs }
PasswordOf(email) == IF email = "a@x.com" THEN "pw123456" ELSE "hunter2"
UserData ==
  { [email |-> e, password |-> PasswordOf(e), username |-> "a",
     organizationName |-> o[1], organizationSubdomain |-> o[2]] :
      e \in Emails, o \in OrgInputs }

\* each email registering its own organization
OwnOrgUserData ==
  { [email |-> "a@x.com", password |-> PasswordOf("a@x.com"), username |-> "a",
     organizationName |-> OrgNames[1], organizationSubdomain |-> Subdomains[1]],
    [email |-> "b@x.com", password |-> PasswordOf("b@x.com"), username |-> "a",
     organizationName |-> OrgNames[2], organizationSubdomain |-> Subdomains[2]] }

\* one account, registering again after its user was deleted
FirstUserData ==
  { [email |-> "a@x.com", password |-> PasswordOf("a@x.com"), username |-> "a",
     organizationName |-> OrgNames[i], organizationSubdomain |-> Subdomains[i]] :
      i \in 1..2 }

\* bodies with one required field absent
IncompleteUserData ==
  { [email |-> d[1], password |-> d[2], username |-> d[3],
     organizationName |-> d[4], organizationSubdomain |-> d[5]] :
      d \in { <<Missing, "pw123456", "a", "Acme", "acme">>,
              <<"a@x.com", Missing, "a", "Acme", "acme">>,
              <<"a@x.com", "pw123456", Missing, "Acme", "acme">>,
              <<"a@x.com", "pw123456", "a", Missing, "acme">>,
              <<"a@x.com", "pw123456", "a", "Acme", Missing>> } }

\* bodies of POST /api/auth/login
Credentials ==
  (Emails \X Passwords) \cup { <<Missing, "pw123456">>, <<"a@x.com", Missing>> }

\* a right and a wrong password for each account, and an incomplete body
SessionCredentials ==
  { <<"a@x.com", "pw123456">>, <<"a@x.com", "hunter2">>, <<"b@x.com", "hunter2">>,
    <<Missing, "pw123456">> }

\* one browser: it presents the cookie it was issued last, if any
Browser == IF issued = {} THEN {NoCookie}
           ELSE { CHOOSE t \in issued : \A t2 \in issued : t2 <= t }

\* ---------------------------------------------------------- specifications
\* registrations, logins, activations and deactivations, one browser
AuthNext ==
  \/ \E c \in Browser, d \in UserData : Register(c, d, FALSE, "none")
  \/ \E c \in Browser, cr \in Credentials, f \in AuthFaults \cup {"none"} :
        Login(c, cr[1], cr[2], FALSE, f)
  \/ \E id \in 1..MaxUsers, a \in BOOLEAN : UpdateUser(NoCookie, id, [isActive |-> a], FALSE)
  \/ \E id \in 1..MaxOrgs, a \in BOOLEAN : SetOrganizationActive(id, a)

AuthSpec == Init /\ [][AuthNext]_vars

\* the loader on one browser's session while its account is deactivated,
\* deleted and registered again
LoaderNext ==
  \/ \E c \in Browser, d \in FirstUserData : Register(c, d, FALSE, "none")
  \/ \E c \in Browser, cr \in SessionCredentials, lf \in BOOLEAN :
        Login(c, cr[1], cr[2], lf, "none")
  \/ \E c \in Browser, lf \in BOOLEAN : Me(c, lf)
  \/ \E id \in 1..MaxUsers, a \in BOOLEAN : UpdateUser(NoCookie, id, [isActive |-> a], FALSE)
  \/ \E id \in 1..MaxUsers : DeleteUser(NoCookie, id, FALSE)
  \/ \E id \in 1..MaxOrgs, a \in BOOLEAN : SetOrganizationActive(id, a)

LoaderSpec == Init /\ [][LoaderNext]_vars

\* sessions: any cookie, login and logout, the store may fail to destroy
SessionNext ==
  \/ \E c \in Cookies, d \in OwnOrgUserData : Register(c, d, FALSE, "none")
  \/ \E c \in Cookies, cr \in SessionCredentials : Login(c, cr[1], cr[2], FALSE, "none")
  \/ \E c \in Cookies, sf \in BOOLEAN : Logout(c, FALSE, sf)
  \/ \E c \in Cookies : Me(c, FALSE)

SessionSpec == Init /\ [][SessionNext]_vars

\* registration: complete and incomplete bodies, every storage call may raise
RegisterNext ==
  \/ \E c \in Browser, d \in UserData \cup IncompleteUserData,
        f \in RegisterFaults \cup {"none"} : Register(c, d, FALSE, f)

RegisterSpec == Init /\ [][RegisterNext]_vars

\* the role ids a request body can name: each organization's role and one
\* id that no role has
RoleIds == 1..(MaxOrgs + 1)

\* the gate while role names and permissions are edited and users are moved
\* to other roles
GateNext ==
  \/ \E c \in Cookies, d \in OwnOrgUserData : Register(c, d, FALSE, "none")
  \/ \E c \in Cookies, rr \in RequiredRoles, rf \in BOOLEAN : Gated(c, rr, FALSE, rf)
  \/ \E id \in 1..MaxOrgs, sh \in RoleShapes : UpdateRole(id, sh)
  \/ \E id \in 1..MaxUsers, rid \in RoleIds : UpdateUser(NoCookie, id, [roleId |-> rid], FALSE)

GateSpec == Init /\ [][GateNext]_vars

\* registerUser arguments without an organization name, a subdomain or both
NoOrgUserData ==
  { [email |-> e, password |-> PasswordOf(e), username |-> "a",
     organizationName |-> o[1], organizationSubdomain |-> o[2]] :
      e \in Emails, o \in { <<Missing, "acme">>, <<"Acme", Missing>>, <<Missing, Missing>> } }

\* bodies of POST /api/users: a new user for an organization and a role
\* that exist
NewUserData ==
  { [email |-> e, password |-> PasswordOf(e), username |-> "a",
     organizationId |-> r.organizationId, roleId |-> r.id] :
      e \in Emails, r \in userRoles }

\* every way the source creates users and organizations
ProvisionNext ==
  \/ \E c \in Browser, d \in UserData \cup IncompleteUserData : Register(c, d, FALSE, "none")
  \/ \E d \in NoOrgUserData, f \in {"none", "existing"} : RegisterUserCall(d, f)
  \/ \E c \in Browser, d \in NewUserData : CreateUser(c, d, FALSE)
  \/ \E id \in 1..MaxUsers : DeleteUser(NoCookie, id, FALSE)

ProvisionSpec == Init /\ [][ProvisionNext]_vars

\* two tenants: users are moved between the roles that exist, roles are
\* edited, and gated requests are made
TenancyNext ==
  \/ \E c \in Cookies, d \in OwnOrgUserData : Register(c, d, FALSE, "none")
  \/ \E c \in Cookies, rr \in RequiredRoles : Gated(c, rr, FALSE, FALSE)
  \/ \E id \in 1..MaxOrgs, sh \in RoleShapes : UpdateRole(id, sh)
  \/ \E id \in 1..MaxUsers, r \in userRoles :
        UpdateUser(NoCookie, id, [roleId |-> r.id], FALSE)

TenancySpec == Init /\ [][TenancyNext]_vars

\* 72 bytes, and two passwords of 73 bytes that begin with them
Pad72 == "aaaaaaaaaaaaaaaaaaaaaaaaaaaaaaaaaaaaaaaaaaaaaaaaaaaaaaaaaaaaaaaaaaaaaaaa"
LongPasswords == { Pad72 \o "x", Pad72 \o "y" }

\* plaintexts given to hashPassword and comparePassword
Plaintexts == Passwords \cup {"pw123457", Pad72} \cup LongPasswords

\* the salts bcrypt.genSalt draws
Salts == 1..(MaxUsers + 1)

\* strings that are not bcrypt hashes: a plaintext, and 60 characters that
\* do not begin with $2
MalformedHashes == { "pw123456", "xxxxxxxxxxxxxxxxxxxxxxxxxxxxxxxxxxxxxxxxxxxxxxxxxxxxxxxxxxxx" }

\* the credential store on its own
HashNext ==
  \/ \E pw \in Plaintexts, salt \in Salts : HashPasswordCall(pw, salt)
  \/ \E pw \in Plaintexts : ComparePasswordCall(pw)
  \/ \E str \in MalformedHashes : ReadMalformedHash(str)

HashSpec == Init /\ [][HashNext]_vars

\* registrations of one email, each with an organization of its own or with
\* the organization of another call
SameEmailUserData ==
  { [email |-> "a@x.com", password |-> PasswordOf("a@x.com"), username |-> "a",
     organizationName |-> OrgNames[i], organizationSubdomain |-> Subdomains[i]] :
      i \in 1..MaxOrgs }

\* registerUser calls that interleave at their awaits
ConcurrentNext ==
  \/ \E c \in Calls, d \in SameEmailUserData : RegisterUserHash(c, d)
  \/ \E c \in Calls : RegisterUserSelectExisting(c)
  \/ \E c \in Calls : RegisterUserInsertOrganization(c)
  \/ \E c \in Calls : RegisterUserInsertRole(c)
  \/ \E c \in Calls : RegisterUserSelectRole(c)
  \/ \E c \in Calls : RegisterUserInsertUser(c)
  \/ \E c \in Calls : RegisterUserRefetch(c)

ConcurrentSpec == Init /\ [][ConcurrentNext]_vars

\* the routes that bind and unbind a session and two that do not, from any
\* session, with registrations and logins that fail and users that are
\* deactivated while sessions are bound to them
BindingNext ==
  \/ \E c \in Cookies, d \in OwnOrgUserData : Register(c, d, FALSE, "none")
  \/ \E c \in Cookies, cr \in SessionCredentials : Login(c, cr[1], cr[2], FALSE, "none")
  \/ \E c \in Cookies : Logout(c, FALSE, FALSE)
  \/ \E c \in Cookies : Me(c, FALSE)
  \/ \E c \in Cookies, id \in 1..MaxUsers : UpdateUser(c, id, [isActive |-> FALSE], FALSE)

BindingSpec == Init /\ [][BindingNext]_vars

\* ------------------------------------------------------------------ claims
\* the user with this email is active in an active organization and was
\* registered with this password
ValidCredentials(email, password) ==
  \E u \in users :
    /\ u.email = email
    /\ u.isActive
    /\ \E o \in organizations : o.id = u.organizationId /\ o.isActive
    /\ plaintext[u.id] = password

\* C1: after any registrations, activations and deactivations, a call of
\* authenticateUser in which no storage call raises returns an identity if and
\* only if a user with that email exists, is active, its organization is
\* active and the password is the one it was registered with; the identity is
\* that user's.
C1_AuthenticateIffValid ==
  (last.route = "login" /\ last.status # 400 /\ last.raised = "") =>
    /\ (last.result # None) <=> ValidCredentials(last.email, last.password)
    /\ last.result # None => last.result.email = last.email

\* a login that was refused although a user with this email and password
\* exists: the user or its organization is inactive
C1_Witness ==
  /\ last.route = "login" /\ last.status = 401 /\ last.raised = ""
  /\ \E u \in users : u.email = last.email /\ plaintext[u.id] = last.password
  /\ \E u \in users : u.isActive /\ u.email = last.email

\* C7: when the lookup succeeds, the user and organization are active and the
\* password verifies, authenticateUser returns the identity even if the
\* last-login update raises a storage error.
C7_LastLoginBestEffort ==
  (last.route = "login" /\ last.raised = "update") =>
    (last.result # None /\ last.status = 200)

\* the session's bound user is missing, inactive or in an inactive organization
StaleBinding(t) ==
  /\ sessionStore[t] > 0
  /\ ~\E r \in UsersWithOrg :
        r.id = sessionStore[t] /\ r.isActive /\ r.organization.isActive

\* C2: a session whose bound user is inactive, whose user's organization is
\* inactive, or whose user no longer exists is cleared by loadUserContext on
\* the next request that carries it: the userId is removed from the session,
\* no identity is attached, the request goes on to its route, requireAuth
\* rejects it with 401, and the stored session no longer names that user.
C2_StaleSessionCleared ==
  [][ \A t \in Tokens :
        (StaleBinding(t) /\ last'.cookie = t) =>
          /\ last'.loadedUserId = sessionStore[t]
          /\ last'.sessionUserId = 0
          /\ last'.user = None
          /\ last'.status # 0
          /\ last'.route = "me" =>
               /\ last'.status = 401
               /\ last'.message = "Authentication required"
               /\ ~last'.handlerRan
          /\ last'.route # "logout" =>
               sessionStore'[t] = IF last'.status = 200 /\ last'.route \in {"login", "register"}
                                    THEN last'.body.id ELSE 0 ]_vars

\* GET /api/auth/me on a session that was bound when it arrived and that the
\* loader cleared without a storage error
C2_Witness ==
  /\ last.route = "me"
  /\ last.loadedUserId # 0
  /\ last.loaderError = ""
  /\ last.sessionUserId = 0
  /\ last.status = 401
  /\ sessionStore[last.cookie] = 0

\* C8: on every request, after loadUserContext the session carries a userId if
\* and only if an identity is attached, and requireAuth answers 401
\* 'Authentication required' exactly when no identity is attached and lets the
\* handler run exactly when one is.
C8_RequireAuthAgreesWithIdentity ==
  (last.route \notin {"init", "store"}) =>
    /\ (last.sessionUserId # 0) <=> (last.user # None)
    /\ last.user # None => last.user.id = last.sessionUserId
    /\ last.route = "me" =>
         /\ (last.user = None) <=>
              (last.status = 401 /\ last.message = "Authentication required"
                 /\ ~last.handlerRan)
         /\ (last.user # None) <=> (last.status = 200 /\ last.handlerRan)

\* GET /api/auth/me refused on a bound session whose lookup raised
C8_Witness ==
  /\ last.route = "me"
  /\ last.loadedUserId # 0
  /\ last.loaderError # ""
  /\ last.status = 401

\* what GET /api/auth/me answers on the session t when no storage call raises
MeBody(t) ==
  LET ctx == LoadUserContext(sessionStore[t], FALSE)
  IN  IF sessionStore[t] # NoRecord /\ RequireAuth(ctx.userId).next /\ ctx.user # None
        THEN UserBody(ctx.user) ELSE None

\* C9: POST /api/auth/login answers 400 when email or password is missing, 401
\* when authenticateUser returns no identity and 200 with the user when it
\* returns one; the session is bound to that user's id exactly in the 200
\* case, and GET /api/auth/me on the same session then returns the same user.
C9_LoginBindsSession ==
  [][ last'.route = "login" =>
        /\ (last'.status = 400) <=> (last'.email = Missing \/ last'.password = Missing)
        /\ (last'.status = 401) <=> (last'.status # 400 /\ last'.result = None)
        /\ (last'.status = 200) <=> (last'.result # None)
        /\ last'.status = 200 =>
             /\ last'.body = UserBody(last'.result)
             /\ last'.result.email = last'.email
             /\ sessionStore'[last'.sid] = last'.result.id
             /\ MeBody(last.sid)' = last'.body
        /\ last'.status # 200 =>
             \A t \in Tokens :
               sessionStore'[t] = IF t = last'.cookie /\ sessionStore[t] # NoRecord
                                    THEN last'.sessionUserId ELSE sessionStore[t] ]_vars

\* a login that rebinds an existing session
C9_Witness ==
  /\ last.route = "login"
  /\ last.status = 200
  /\ last.cookie = last.sid
  /\ sessionStore[last.sid] = last.body.id

\* C10: a logout that answers 200 has removed the stored session; a removed
\* session stays removed, and every later request presenting its token has no
\* bound userId, gets no identity and is refused by requireAuth with 401.
\* When the store fails to destroy the session the answer is 500 'Logout
\* failed'.
C10_LogoutDestroysSession ==
  [][ /\ last'.route = "logout" =>
           /\ (last'.status = 500) <=> (last'.raised = "destroy")
           /\ (last'.status = 200) <=> (last'.raised = "")
           /\ last'.status = 500 => last'.message = "Logout failed"
           /\ (last'.status = 200 /\ last'.cookie # NoCookie) =>
                sessionStore'[last'.cookie] = NoRecord
      /\ \A t \in issued :
           sessionStore[t] = NoRecord =>
             /\ sessionStore'[t] = NoRecord
             /\ last'.cookie = t =>
                  /\ last'.loadedUserId = 0
                  /\ last'.sessionUserId = 0
                  /\ last'.user = None
                  /\ last'.route = "me" => last'.status = 401 ]_vars

\* a login that succeeds while presenting the token of a destroyed session
C10_Witness ==
  /\ last.route = "login"
  /\ last.status = 200
  /\ last.cookie \in issued
  /\ sessionStore[last.cookie] = NoRecord
  /\ last.sid # last.cookie

\* C3: registering with an email that belongs to an existing user fails, with
\* the duplicate-email error when the call reaches the check, and the failed
\* call creates no organization, no role and no user.
C3_DuplicateEmailCreatesNothing ==
  [][ (last'.route = "register" /\ \E u \in users : u.email = last'.email) =>
        /\ last'.status = 400
        /\ last'.result = None
        /\ last'.writes = <<>>
        /\ organizations' = organizations
        /\ userRoles' = userRoles
        /\ users' = users
        /\ nextId' = nextId
        /\ (last'.message = "Registration failed" /\ last'.raised = "") =>
             last'.error = "User with this email already exists" ]_vars

\* a registration refused for its email while organizations without a user
\* exist
C3_Witness ==
  /\ last.route = "register"
  /\ last.status = 400
  /\ last.error = "User with this email already exists"
  /\ \E u \in users : u.email = last.email
  /\ \E o \in organizations : \A u \in users : u.organizationId # o.id

\* C5: a successful registerUser call has written, in this order, a new
\* organization with the given name and subdomain, a role 'admin' with
\* permissions ['*'] of that organization, and a user of that organization
\* with that role; the returned identity carries the organization and no
\* password, and neither does the response body.
C5_RegisterCreatesOrgRoleUser ==
  [][ (last'.route = "register" /\ last'.status = 200) =>
        /\ last'.writes = <<"organization", "role", "user">>
        /\ \E o \in organizations' \ organizations :
           \E r \in userRoles' \ userRoles :
           \E u \in users' \ users :
             /\ organizations' = organizations \cup {o}
             /\ userRoles' = userRoles \cup {r}
             /\ users' = users \cup {u}
             /\ \A o2 \in organizations : o2.id # o.id
             /\ \A r2 \in userRoles : r2.id # r.id
             /\ \A u2 \in users : u2.id # u.id
             /\ o.name = last'.organizationName
             /\ o.subdomain = last'.organizationSubdomain
             /\ r.name = "admin" /\ r.permissions = {"*"} /\ r.organizationId = o.id
             /\ u.email = last'.email
             /\ u.organizationId = o.id /\ u.roleId = r.id
             /\ ComparePassword(last'.password, u.password)
             /\ last'.result.id = u.id
             /\ last'.result.organization = o
             /\ last'.result.roleId = r.id
             /\ "password" \notin DOMAIN last'.result
             /\ "password" \notin DOMAIN last'.body
             /\ last'.body.id = u.id /\ last'.body.organization = o ]_vars

\* a successful registration whose role id differs from its organization id
C5_Witness ==
  /\ last.route = "register"
  /\ last.status = 200
  /\ last.result.roleId # last.result.organizationId
  /\ \E r \in userRoles : r.id = last.result.roleId /\ r.organizationId = last.result.organizationId

\* C6: every registerUser call is all-or-nothing over its three writes: an
\* organization that a call created has, when the call is over, its 'admin'
\* role with the wildcard permission and the user the call registered.
C6_RegisterAllOrNothing ==
  [][ last'.route = "register" =>
        \A o \in organizations' \ organizations :
          /\ \E r \in userRoles' :
               r.organizationId = o.id /\ r.name = "admin" /\ "*" \in r.permissions
          /\ \E u \in users' :
               u.organizationId = o.id /\ u.email = last'.email ]_vars

\* C4: for an attached identity whose role is found, requireRole(requiredRoles)
\* lets the handler run if and only if the role's permissions contain '*', or
\* the role's name is one of requiredRoles, or one of requiredRoles is among
\* the role's permissions; otherwise it answers 403 'Insufficient
\* permissions' and the handler does not run.
C4_RequireRoleDecision ==
  (last.route = "gated" /\ last.role # None) =>
    LET passes == \/ "*" \in last.role.permissions
                  \/ last.role.name \in last.requiredRoles
                  \/ last.role.permissions \cap last.requiredRoles # {}
    IN  /\ last.user # None
        /\ \E r \in userRoles :
             /\ r.id = last.user.roleId
             /\ r.name = last.role.name
             /\ r.permissions = last.role.permissions
        /\ last.handlerRan <=> passes
        /\ passes => last.status = 200
        /\ ~passes => (last.status = 403 /\ last.message = "Insufficient permissions")

\* requireRole(['admin']) refusing the role 'viewer' with permissions ['read']
C4_Witness ==
  /\ last.route = "gated"
  /\ last.requiredRoles = {"admin"}
  /\ last.role = [name |-> "viewer", permissions |-> {"read"}]
  /\ last.status = 403
  /\ ~last.handlerRan

\* the user id the stored session of this cookie is bound to (0: none)
BoundUser(cookie) ==
  IF cookie = NoCookie THEN 0
  ELSE IF sessionStore[cookie] = NoRecord THEN 0
  ELSE sessionStore[cookie]

\* C11: GET /api/auth/me answers 401 when the request has no session cookie or
\* its session is bound to no user, and, when the session is bound to an
\* active user of an active organization and the loader's lookup does not
\* raise, 200 with the identity as the users and organizations rows hold it
\* at this request.
C11_MeAnswersCurrentIdentity ==
  [][ last'.route = "me" =>
        /\ BoundUser(last'.cookie) = 0 =>
             /\ last'.status = 401
             /\ last'.body = None
        /\ \A r \in UsersWithOrg :
             ( /\ r.id = BoundUser(last'.cookie)
               /\ r.isActive /\ r.organization.isActive
               /\ last'.loaderError = "" ) =>
               /\ last'.status = 200
               /\ last'.body = [id |-> r.id, email |-> r.email, username |-> r.username,
                                organization |-> r.organization]
               /\ last'.user = SelectedColumns(r) ]_vars

\* /api/auth/me answering 200 for a user that has logged in on this session
C11_Witness ==
  /\ last.route = "me"
  /\ last.status = 200
  /\ last.cookie # NoCookie
  /\ last.body.id = sessionStore[last.cookie]
  /\ \E u \in users : u.id = last.body.id /\ u.lastLogin = LoginTime

\* C12: a storage error in loadUserContext's lookup is not a request failure:
\* the loader attaches no identity, removes the session's userId, calls next
\* once, and the route answers as for an unauthenticated request: requireAuth
\* refuses /api/auth/me with 401, the login handler runs and decides by the
\* credentials alone.
C12_LoaderErrorIsNoIdentity ==
  (last.loaderError # "") =>
    /\ last.loadedUserId # 0
    /\ last.user = None
    /\ last.sessionUserId = 0
    /\ last.nextCalls = 1
    /\ last.status \in {200, 400, 401}
    /\ last.route = "me" =>
         /\ last.status = 401
         /\ last.message = "Authentication required"
         /\ ~last.handlerRan
    /\ last.route = "login" =>
         /\ (last.status = 400) <=> (last.email = Missing \/ last.password = Missing)
         /\ (last.status = 200) <=> ValidCredentials(last.email, last.password)
         /\ last.status = 200 => sessionStore[last.sid] = last.result.id

\* a login that succeeds in a request whose loader lookup raised
C12_Witness ==
  /\ last.route = "login"
  /\ last.loaderError # ""
  /\ last.nextCalls = 1
  /\ last.status = 200

\* C13: no request hands out a password hash: the value authenticateUser or
\* registerUser returned, the identity loadUserContext attached, and the body
\* of the register, login or me response have no password field.
C13_NoPasswordLeavesResolver ==
  /\ "password" \notin DOMAIN last.result
  /\ "password" \notin DOMAIN last.user
  /\ last.route \in {"register", "login", "me"} =>
       /\ "password" \notin DOMAIN last.body
       /\ last.body # None => "password" \notin DOMAIN last.body.organization
  /\ last.result # None => "password" \notin DOMAIN last.result.organization
  /\ last.user # None => "password" \notin DOMAIN last.user.organization

\* a login that returned the identity of a user whose row holds the hash of
\* the presented password, on a session that already carried an identity
C13_Witness ==
  /\ last.route = "login"
  /\ last.status = 200
  /\ last.user # None
  /\ \E u \in users :
       /\ u.id = last.result.id
       /\ "password" \in DOMAIN u
       /\ ComparePassword(last.password, u.password)
  /\ last.body.id = last.result.id

\* C14: requireRole does not let the handler run when it cannot establish the
\* authorization: without an attached identity it answers 401; when no role
\* has the id the identity refers to it answers 403 'No role found', a body
\* other than 'Insufficient permissions'; when the role lookup raises it
\* answers 500 'Authorization error'.
C14_RequireRoleFailsClosed ==
  (last.route = "gated") =>
    LET found == \E r \in userRoles : r.id = last.user.roleId
    IN  /\ last.user = None =>
             /\ last.status = 401
             /\ last.message = "Authentication required"
        /\ (last.user # None /\ last.raised = "role") =>
             /\ last.status = 500
             /\ last.message = "Authorization error"
        /\ (last.user # None /\ last.raised = "" /\ ~found) =>
             /\ last.status = 403
             /\ last.message = "No role found"
             /\ last.message # "Insufficient permissions"
        /\ last.handlerRan <=> last.status = 200
        /\ last.handlerRan => (last.user # None /\ last.raised = "" /\ found)

\* a gated request of a user whose roleId names no role
C14_Witness ==
  /\ last.route = "gated"
  /\ last.user # None
  /\ \A r \in userRoles : r.id # last.user.roleId
  /\ last.status = 403
  /\ last.message = "No role found"
  /\ ~last.handlerRan

\* the ids of the rows of a table
Ids(rows) == { r.id : r \in rows }

\* what C15 says of registerUser itself and of the creation of organizations
RegisterNeedsOrganization ==
  /\ ( /\ last'.route \in {"register", "registerUser"}
       /\ (last'.organizationName = Missing \/ last'.organizationSubdomain = Missing) ) =>
       /\ last'.result = None
       /\ last'.writes = <<>>
       /\ organizations' = organizations
       /\ userRoles' = userRoles
       /\ users' = users
       /\ nextId' = nextId
       /\ last'.route = "register" => last'.status = 400
       /\ last'.route = "registerUser" =>
            last'.error \in {"Organization information is required",
                             "User with this email already exists", "storage error"}
  /\ Ids(organizations') # Ids(organizations) =>
       /\ last'.route = "register"
       /\ last'.organizationName # Missing
       /\ last'.organizationSubdomain # Missing
       /\ \E o \in organizations' :
            /\ organizations' = organizations \cup {o}
            /\ o.name = last'.organizationName
            /\ o.subdomain = last'.organizationSubdomain

\* C15 as claimed: registerUser without organizationName or
\* organizationSubdomain fails and writes nothing, organizations are created
\* by a registration with both fields only, and no user is ever created
\* without an organization created by the same call.
C15_NoUserWithoutNewOrganization ==
  [][ /\ RegisterNeedsOrganization
      /\ \A u \in users' :
           u.id \notin Ids(users) =>
             \E o \in organizations' :
               o.id \notin Ids(organizations) /\ u.organizationId = o.id ]_vars

\* C15 as amended: registerUser without organizationName or
\* organizationSubdomain fails and writes nothing, whether or not the email
\* is in use; organizations are created by a registration with both fields
\* only; a user that registerUser creates belongs to the organization the
\* same call created.
C15_RegisterNeedsOrganization ==
  [][ /\ RegisterNeedsOrganization
      /\ last'.route \in {"register", "registerUser"} =>
           \A u \in users' :
             u.id \notin Ids(users) =>
               \E o \in organizations' :
                 o.id \notin Ids(organizations) /\ u.organizationId = o.id ]_vars

\* registerUser refusing an unused email for want of a subdomain, after
\* another registration succeeded
C15_Witness ==
  /\ last.route = "registerUser"
  /\ last.organizationName # Missing
  /\ last.organizationSubdomain = Missing
  /\ last.error = "Organization information is required"
  /\ last.result = None
  /\ \A u \in users : u.email # last.email
  /\ organizations # {}

\* C16: POST /api/auth/register answers 400 when a required field is missing
\* or registerUser returns no user, and 200 with the user otherwise; the
\* session is bound to the new user's id exactly in the 200 case, and
\* authenticateUser with the same email and password then returns that user
\* and its organization.
C16_RegisterBindsSession ==
  [][ last'.route = "register" =>
        LET missing == \/ last'.email = Missing \/ last'.password = Missing
                       \/ last'.organizationName = Missing
                       \/ last'.organizationSubdomain = Missing
            auth == AuthenticateUser(last.email, last.password, "none")'
        IN  /\ last'.status \in {200, 400}
            /\ missing => (last'.status = 400 /\ users' = users)
            /\ (last'.status = 400) <=> (last'.result = None)
            /\ last'.status = 200 =>
                 /\ last'.body = UserBody(last'.result)
                 /\ last'.body.email = last'.email
                 /\ last'.body.id \notin Ids(users)
                 /\ last'.body.id \in Ids(users')
                 /\ sessionStore'[last'.sid] = last'.body.id
                 /\ auth.result # None
                 /\ auth.result.id = last'.body.id
                 /\ auth.result.organization = last'.body.organization
                 /\ auth.result.organization.name = last'.organizationName
            /\ last'.status # 200 =>
                 \A t \in Tokens :
                   sessionStore'[t] = IF t = last'.cookie /\ sessionStore[t] # NoRecord
                                        THEN last'.sessionUserId ELSE sessionStore[t] ]_vars

\* a second registration on a session that was bound to the first user
C16_Witness ==
  /\ last.route = "register"
  /\ last.status = 200
  /\ last.loadedUserId # 0
  /\ last.loadedUserId # last.body.id
  /\ sessionStore[last.sid] = last.body.id

\* C17: nothing is cached across requests. The identity a request carries is
\* the users and organizations rows as stored when the request arrives, and
\* the gate of the request decides by the name and permissions the role row
\* holds then: after an edit of the role (the wildcard removed, say) or of
\* the user's roleId, the next gated request is decided by the new row.
C17_FreshRoleAndIdentity ==
  [][ last'.route = "gated" =>
        /\ last'.loaderError = "" =>
             \/ /\ last'.user = None
                /\ ~\E r \in UsersWithOrg :
                      /\ r.id = BoundUser(last'.cookie)
                      /\ r.isActive /\ r.organization.isActive
             \/ /\ last'.user # None
                /\ \E r \in UsersWithOrg :
                      /\ r.id = BoundUser(last'.cookie)
                      /\ last'.user = SelectedColumns(r)
        /\ (last'.user # None /\ last'.raised = "") =>
             LET rows == { r \in userRoles : r.id = last'.user.roleId }
             IN  /\ rows = {} => (last'.role = None /\ ~last'.handlerRan)
                 /\ \A r \in rows :
                      /\ last'.role = [name |-> r.name, permissions |-> r.permissions]
                      /\ last'.handlerRan <=>
                           \/ "*" \in r.permissions
                           \/ r.name \in last'.requiredRoles
                           \/ r.permissions \cap last'.requiredRoles # {} ]_vars

\* a gated request refused after the wildcard was removed from the admin
\* role that registration created
C17_Witness ==
  /\ last.route = "gated"
  /\ last.user # None
  /\ last.role = [name |-> "admin", permissions |-> {}]
  /\ last.requiredRoles = {"read"}
  /\ last.status = 403
  /\ last.message = "Insufficient permissions"
  /\ ~last.handlerRan

\* C18: a login with both fields present that fails answers the same way
\* whatever made it fail: for an unknown email, a wrong password, an inactive
\* user and a user of an inactive organization the status is 401, the body
\* is 'Invalid credentials' with no user, and no row of users, organizations
\* or user_roles changes (lastLogin is not written).
C18_LoginFailuresAlike ==
  [][ ( /\ last'.route = "login"
        /\ last'.email # Missing /\ last'.password # Missing
        /\ \/ \A u \in users : u.email # last'.email
           \/ \E u \in users : u.email = last'.email /\ plaintext[u.id] # last'.password
           \/ \E u \in users : u.email = last'.email /\ ~u.isActive
           \/ \E u \in users : \E o \in organizations :
                 u.email = last'.email /\ o.id = u.organizationId /\ ~o.isActive ) =>
        /\ last'.status = 401
        /\ last'.message = "Invalid credentials"
        /\ last'.body = None
        /\ last'.result = None
        /\ users' = users
        /\ organizations' = organizations
        /\ userRoles' = userRoles ]_vars

\* a wrong password refused for an active user of an active organization
\* whose lastLogin is still unset
C18_Witness ==
  /\ last.route = "login"
  /\ last.status = 401
  /\ last.message = "Invalid credentials"
  /\ last.raised = ""
  /\ \E u \in users : \E o \in organizations :
       /\ u.email = last.email /\ u.isActive
       /\ o.id = u.organizationId /\ o.isActive
       /\ plaintext[u.id] # last.password
       /\ u.lastLogin = 0

\* C19: in every reachable state every user belongs to an organization that
\* exists and refers to a role that exists and belongs to that organization,
\* so the role requireRole fetches for a request is a role of the requesting
\* user's organization.
C19_RoleOfOwnOrganization ==
  /\ \A u \in users :
       /\ \E o \in organizations : o.id = u.organizationId
       /\ \E r \in userRoles : r.id = u.roleId /\ r.organizationId = u.organizationId
  /\ (last.route = "gated" /\ last.role # None) =>
       \E r \in userRoles :
         /\ r.id = last.user.roleId
         /\ r.organizationId = last.user.organizationId

\* C20: comparePassword(p, hashPassword(p)) is true for every plaintext p,
\* comparePassword(p, hashPassword(p2)) is false for every p # p2, and
\* comparePassword returns false and does not throw for a malformed hash.
C20_HashRoundTrip ==
  (last.route = "comparePassword") =>
    /\ ~last.threw
    /\ last.hashedPlaintext # Missing =>
         (last.matches <=> last.password = last.hashedPlaintext)
    /\ last.hashedPlaintext = Missing => ~last.matches

\* C21: when registerUser calls with the same email have interleaved at their
\* storage calls and all are over, at most one user has the email and at most
\* one organization, role and user have been created: a call that returned
\* null has left no organization and no role behind.
C21_InterleavedRegisterLeavesOneSet ==
  (\A c \in Calls : calls[c].pc = "done") =>
     /\ Cardinality({ u \in users : u.email = "a@x.com" }) <= 1
     /\ Cardinality(organizations) <= 1
     /\ Cardinality(userRoles) <= 1
     /\ Cardinality(users) <= 1
     /\ \A c \in Calls : calls[c].result = None =>
          /\ ~ \E o \in organizations : o.id = calls[c].organizationId
          /\ ~ \E r \in userRoles : r.organizationId = calls[c].organizationId

\* C22: the user id a session is bound to changes only in three ways: a
\* login or a registration on that session that answers 200 binds it to the
\* user the call authenticated or created; loadUserContext, running for a
\* request of that session, removes it; a logout of that session removes it.
\* No other route and no request of another session changes it, so a bound id
\* is always one that a login or registration on the session put there.
C22_BindingSetOnlyByLoginOrRegister ==
  [][ \A t \in Tokens :
        BoundUser(t)' # BoundUser(t) =>
          /\ last'.sid = t
          /\ IF BoundUser(t)' # 0
               THEN /\ last'.route \in {"login", "register"}
                    /\ last'.status = 200
                    /\ BoundUser(t)' = last'.result.id
                    /\ \E u \in users' : u.id = BoundUser(t)' /\ u.email = last'.email
               ELSE \/ last'.route = "logout" /\ last'.status = 200
                    \/ last'.loadedUserId # 0 /\ last'.sessionUserId = 0 ]_vars

\* a session bound to one user is bound to another user by a login on it
C22_Witness ==
  /\ last.route = "login"
  /\ last.status = 200
  /\ last.loadedUserId # 0
  /\ last.loadedUserId # last.result.id
  /\ BoundUser(last.sid) = last.result.id

C24_RemovedBindingStaysRemoved ==
  [][ \A t \in Tokens :
        LET binds == /\ last'.cookie = t
                     /\ last'.route \in {"login", "register"}
                     /\ last'.status = 200
        IN  /\ (last'.cookie = t /\ last'.loadedUserId # 0 /\ last'.user = None /\ ~binds) =>
                 /\ sessionStore[t] = last'.loadedUserId
                 /\ sessionStore'[t] = 0
            /\ sessionStore[t] = 0 =>
                 /\ sessionStore'[t] = IF binds THEN last'.result.id ELSE 0
                 /\ last'.cookie = t =>
                      /\ last'.loadedUserId = 0
                      /\ last'.user = None
                      /\ last'.route = "me" =>
                           /\ last'.status = 401
                           /\ last'.message = "Authentication required" ]_vars

\* GET /api/auth/me answered 401 on a session whose binding the loader has
\* removed, while the user of the session is active in an active organization
C24_Witness ==
  /\ last.route = "me"
  /\ last.status = 401
  /\ last.cookie # NoCookie
  /\ last.loadedUserId = 0
  /\ last.loaderError = ""
  /\ sessionStore[last.cookie] = 0
  /\ \E r \in UsersWithOrg : r.isActive /\ r.organization.isActive
====
